---- MODULE Spec2Model ----
(***************************************************************************)
(* Model of the pagination aggregation helper _fetch_all_with_pagination   *)
(* of the Inspectorio Sight client, in its two realisations:               *)
(*   - InspectorioSight       (thread pool, inspectorio_sight.py)          *)
(*   - AsyncInspectorioSight  (semaphore + gather, async_inspectorio_sight)*)
(* One client object issues calls of the helper against a server holding   *)
(* `total` immutable records 0 .. total-1.                                 *)
(***************************************************************************)
EXTENDS Integers, Sequences, FiniteSets, TLC

(* ------------------------------ bounds --------------------------------- *)
\* largest number of records the server holds
MaxTotal == 12
\* largest page size a caller passes as limit
MaxLimit == 5
\* largest total_safe_limit a caller passes
MaxSafeLimit == 7
\* largest concurrent_fetches_limit requested at construction
MaxBudget == 2
\* inputs are kept to those that schedule at most this many page fetches
MaxPages == 3
\* the runs of consecutive calls schedule at most this many page fetches each
MaxRepeatPages == 2
MaxSessions == 3
MaxEdge == 2

(* -------------------------- program constants -------------------------- *)
DEFAULT_LIMIT == 10
\* hard ceiling of concurrent_fetches_limit
FETCHES_CEILING == 20

VARIABLES
    variant,        \* "sync" (InspectorioSight) or "async" (AsyncInspectorioSight)
    budget,         \* self._concurrent_fetches_limit
    total,          \* number of records on the server (immutable data)
    kwargs,         \* the caller's **kwargs of the running call
    pc,             \* position of the caller inside _fetch_all_with_pagination
    fetchLog,       \* every fetch_function invocation of the call, in start order
    limiter,        \* "none", or "created" once the pool / semaphore exists
    slots,          \* free workers of the pool / value of the semaphore
    tasks,          \* the scheduled page fetches, in schedule order
    order,          \* indexes of the settled page fetches, in completion order
    collected,      \* sync: number of task.result() calls that returned
    result,         \* the sequence handed back to the caller
    error,          \* the failure raised to the caller
    history,        \* summaries of the earlier calls on this client
    requestedBudget, \* the constructor's argument concurrent_fetches_limit
    sessions,       \* every HTTP session the client created: "open" or "closed"
    current,        \* index in sessions of self._session, 0 for None
    depth,          \* context blocks of the client entered and not yet exited
    lastExit,       \* how the last context block was left
    token,          \* self._token
    headers,        \* self._headers
    other,          \* the fan-out of a second, concurrent call of the helper
    lastLogin,      \* data.token of the last login response that carried one
    call            \* the last login / _make_request / _clean_kwargs call and its outcome

\* the client's own state, which no step of the helper assigns
clientVars == <<requestedBudget, sessions, current, depth, lastExit, token, headers,
                other, lastLogin, call>>

vars == <<variant, budget, total, kwargs, pc, fetchLog, limiter, slots, tasks,
          order, collected, result, error, history, clientVars>>

(* --------------------------- pure helpers ------------------------------ *)
Min(a, b) == IF a <= b THEN a ELSE b

\* dict.get(key, default)
Get(kw, key, default) == IF key \in DOMAIN kw THEN kw[key] ELSE default

\* f(key=val, **kw): kw extended by one keyword argument
WithKey(kw, key, val) ==
    [k \in (DOMAIN kw) \cup {key} |-> IF k = key THEN val ELSE kw[k]]

\* {k: v for k, v in kwargs.items() if k not in remove_keys}
clean_kwargs(kw, remove_keys) == [k \in (DOMAIN kw) \ remove_keys |-> kw[k]]

\* len(range(start, stop, step)) for step # 0
RangeLen(start, stop, step) ==
    IF step > 0
    THEN (IF stop > start THEN (stop - start + step - 1) \div step ELSE 0)
    ELSE (IF start > stop THEN (start - stop - step - 1) \div (-step) ELSE 0)

\* list(range(start, stop, step)) for step # 0
PyRange(start, stop, step) ==
    [i \in 1..RangeLen(start, stop, step) |-> start + (i - 1) * step]

\* the server: records [offset, min(offset + limit, total)) of 0 .. n-1
ServerData(n, offset, limit) ==
    LET hi == Min(offset + limit, n)
    IN  IF hi > offset THEN [i \in 1..(hi - offset) |-> offset + i - 1] ELSE <<>>

\* fetch_function(**kw): a list_* endpoint; offset defaults to 0 and limit to
\* DEFAULT_LIMIT; the response carries the page and the total of the whole set
FetchFunction(n, kw) ==
    [total  |-> n,
     offset |-> Get(kw, "offset", 0),
     data   |-> ServerData(n, Get(kw, "offset", 0), Get(kw, "limit", DEFAULT_LIMIT))]

\* variant of ClampBudget that stores whatever budget was requested
ClampBudgetNoCeiling(requested) == requested

\* the constructor's clamp of concurrent_fetches_limit
ClampBudget(requested) ==
    IF requested > FETCHES_CEILING THEN FETCHES_CEILING ELSE requested

(* --------------- the steps of _fetch_all_with_pagination --------------- *)
\* variant of ProbeKwargs that also removes the caller's offset
ProbeKwargsWithoutOffset(kw) ==
    WithKey(clean_kwargs(kw, {"total_safe_limit", "limit", "offset"}), "limit", 1)

\* kwargs of the probe call: fetch_function(limit=1, **get_total_kwargs)
ProbeKwargs(kw) ==
    WithKey(clean_kwargs(kw, {"total_safe_limit", "limit"}), "limit", 1)

\* variant of EffectiveTotal without the min against the server's total
EffectiveTotalUncapped(kw, total_items) == Get(kw, "total_safe_limit", total_items)

\* total_items = min(kwargs.get("total_safe_limit", total_items), total_items)
EffectiveTotal(kw, total_items) ==
    Min(Get(kw, "total_safe_limit", total_items), total_items)

\* variant of Offsets that starts the range at the caller's offset
OffsetsFromCallerOffset(kw, total_items) ==
    PyRange(Get(kw, "offset", 0), Min(Get(kw, "total_safe_limit", total_items), total_items),
            Get(kw, "limit", DEFAULT_LIMIT))

\* offsets = range(0, total_items, limit)
Offsets(kw, total_items) ==
    PyRange(0, EffectiveTotal(kw, total_items), Get(kw, "limit", DEFAULT_LIMIT))

\* variant of BatchKwargs that leaves total_safe_limit in the page arguments
BatchKwargsKeepsSafeLimit(kw) == clean_kwargs(kw, {"offset"})

\* batch_kwargs = _clean_kwargs(kwargs, ["total_safe_limit", "offset"])
BatchKwargs(kw) == clean_kwargs(kw, {"total_safe_limit", "offset"})

\* variant of PageKwargs that removes the caller's limit as the probe does
PageKwargsWithoutLimit(kw, offset) ==
    WithKey(clean_kwargs(kw, {"total_safe_limit", "offset", "limit"}), "offset", offset)

\* kwargs of one page call: fetch_function(offset=offset, **batch_kwargs)
PageKwargs(kw, offset) == WithKey(BatchKwargs(kw), "offset", offset)

\* the limiter's capacity: ThreadPoolExecutor(max_workers=...) / Semaphore(...)
LimiterSize(n) == n

\* variant of ResultOrder that lists the pages as they completed
CompletionOrder(n, done) == done

\* order of the pages in the returned list: [task.result() for task in tasks]
\* and gather(*tasks) both follow the schedule, not the completion order
ResultOrder(n, done) == [i \in 1..n |-> i]

NoError == [kind |-> "none", offset |-> -1]
ProbeError == [kind |-> "probe", offset |-> -1]
PageError(offset) == [kind |-> "page", offset |-> offset]

NumTasks == Len(tasks)
Running == {i \in 1..NumTasks : tasks[i].state = "running"}
Queued == {i \in 1..NumTasks : tasks[i].state = "queued"}
Settled == {i \in 1..NumTasks : tasks[i].state \in {"done", "failed"}}
AllSettled == Settled = 1..NumTasks

\* variant of ResultPages that appends to the pages an earlier call returned
ResultPagesAfterEarlier ==
    (IF history = <<>> THEN <<>> ELSE history[1].result)
        \o [i \in 1..NumTasks |-> tasks[ResultOrder(NumTasks, order)[i]].page]

\* the pages of the settled tasks in the order of the returned list
ResultPages == [i \in 1..NumTasks |-> tasks[ResultOrder(NumTasks, order)[i]].page]

(* ------------------------------ inputs --------------------------------- *)
NoKwargs == [k \in {} |-> 0]

\* an optional keyword argument is <<>> when absent and <<v>> when passed
LimitChoices == {<<>>} \cup {<<v>> : v \in 1..MaxLimit}
SafeLimitChoices == {<<>>} \cup {<<v>> : v \in 1..MaxSafeLimit}
OffsetChoices == {<<>>, <<5>>}
StatusChoices == {<<>>, <<"NEW">>}

\* the caller's **kwargs as a mapping from the keys passed to their values
MakeKwargs(lim, off, tsl, st) ==
    [k \in (IF lim = <<>> THEN {} ELSE {"limit"})
           \cup (IF off = <<>> THEN {} ELSE {"offset"})
           \cup (IF tsl = <<>> THEN {} ELSE {"total_safe_limit"})
           \cup (IF st = <<>> THEN {} ELSE {"status"})
       |-> CASE k = "limit" -> lim[1]
             [] k = "offset" -> off[1]
             [] k = "total_safe_limit" -> tsl[1]
             [] k = "status" -> st[1]]

CallerKwargs ==
    {MakeKwargs(lim, off, tsl, st) :
        lim \in LimitChoices, off \in OffsetChoices,
        tsl \in SafeLimitChoices, st \in StatusChoices}

\* the inputs whose fan-out stays within MaxPages page fetches
NumPages(kw, n) == RangeLen(0, EffectiveTotal(kw, n), Get(kw, "limit", DEFAULT_LIMIT))

NoPage == [total |-> -1, offset |-> -1, data |-> <<>>]

(* ------------------------------- state --------------------------------- *)
\* the per-call state at the entry of _fetch_all_with_pagination
FreshCall ==
    /\ pc = "call"
    /\ fetchLog = <<>>
    /\ limiter = "none"
    /\ slots = 0
    /\ tasks = <<>>
    /\ order = <<>>
    /\ collected = 0
    /\ result = <<>>
    /\ error = NoError

\* no login, request or _clean_kwargs call has been made yet
NoCall == [fn |-> "none"]

\* no second call of the helper is running
NoOther == [limiter |-> "none", slots |-> 0, queued |-> 0, running |-> 0]

\* the client after __init__(concurrent_fetches_limit=requestedBudget): the sync
\* client opens a session, the async client has none yet
Constructed(choices) ==
    /\ variant \in {"sync", "async"}
    /\ requestedBudget \in choices
    /\ budget = ClampBudget(requestedBudget)
    /\ sessions = IF variant = "sync" THEN <<"open">> ELSE <<>>
    /\ current = IF variant = "sync" THEN 1 ELSE 0
    /\ depth = 0
    /\ lastExit = "none"
    /\ token = "None"
    /\ headers = NoKwargs
    /\ other = NoOther
    /\ lastLogin = "None"
    /\ call = NoCall

Init ==
    /\ Constructed(1..MaxBudget)
    /\ total \in 0..MaxTotal
    /\ kwargs \in {kw \in CallerKwargs : NumPages(kw, total) <= MaxPages}
    /\ history = <<>>
    /\ FreshCall

\* the start of a run of two consecutive calls: the client has the largest
\* budget and the caller passes a filter
InitRepeat ==
    /\ Init
    /\ budget = ClampBudget(MaxBudget)
    /\ "status" \in DOMAIN kwargs
    /\ NumPages(kwargs, total) <= MaxRepeatPages

(* ------------------------------ actions -------------------------------- *)
\* variant of Probe that schedules the page at offset 0 along with the probe
ProbeWithPrefetch ==
    /\ pc = "call"
    /\ pc' = "probing"
    /\ fetchLog' = Append(fetchLog, [phase |-> "probe", kw |-> ProbeKwargs(kwargs)])
    /\ limiter' = "created"
    /\ slots' = LimiterSize(budget)
    /\ tasks' = <<[offset |-> 0, state |-> "queued", kw |-> NoKwargs, page |-> NoPage]>>
    /\ UNCHANGED <<clientVars, variant, budget, total, kwargs, order, collected,
                   result, error, history>>

\* variant of Probe that creates the limiter before probing
ProbeAfterLimiter ==
    /\ pc = "call"
    /\ pc' = "probing"
    /\ fetchLog' = Append(fetchLog, [phase |-> "probe", kw |-> ProbeKwargs(kwargs)])
    /\ limiter' = "created"
    /\ slots' = LimiterSize(budget)
    /\ UNCHANGED <<clientVars, variant, budget, total, kwargs, tasks, order, collected,
                   result, error, history>>

\* initial_data = fetch_function(limit=1, **get_total_kwargs): the call starts
Probe ==
    /\ pc = "call"
    /\ pc' = "probing"
    /\ fetchLog' = Append(fetchLog, [phase |-> "probe", kw |-> ProbeKwargs(kwargs)])
    /\ UNCHANGED <<clientVars, variant, budget, total, kwargs, limiter, slots, tasks, order,
                   collected, result, error, history>>

\* the probe fetch raises: the exception leaves _fetch_all_with_pagination
ProbeFails ==
    /\ pc = "probing"
    /\ pc' = "raised"
    /\ error' = ProbeError
    /\ UNCHANGED <<clientVars, variant, budget, total, kwargs, fetchLog, limiter, slots,
                   tasks, order, collected, result, history>>

\* the response of the probe call that is in flight
InitialData == FetchFunction(total, fetchLog[Len(fetchLog)].kw)

\* variant of ProbeReturnsEmpty that hands the probe's page back
ProbeReturnsProbePage ==
    /\ pc = "probing"
    /\ InitialData.total = 0
    /\ pc' = "returned"
    /\ result' = <<InitialData>>
    /\ UNCHANGED <<clientVars, variant, budget, total, kwargs, fetchLog, limiter, slots,
                   tasks, order, collected, error, history>>

\* if total_items == 0: return []
ProbeReturnsEmpty ==
    /\ pc = "probing"
    /\ InitialData.total = 0
    /\ pc' = "returned"
    /\ result' = <<>>
    /\ UNCHANGED <<clientVars, variant, budget, total, kwargs, fetchLog, limiter, slots,
                   tasks, order, collected, error, history>>

\* range(0, total_items, limit) raises ValueError for a step of zero
RangeRaises(kw) == Get(kw, "limit", DEFAULT_LIMIT) = 0

\* ThreadPoolExecutor(max_workers=n) raises ValueError for n <= 0,
\* asyncio.Semaphore(n) raises ValueError for n < 0 and accepts 0
LimiterRaises(v, n) == IF v = "sync" THEN n <= 0 ELSE n < 0

\* the ValueError of range() or of the limiter's constructor
SetupError == [kind |-> "value", offset |-> -1]

\* the probe reports records: the offsets are computed, the limiter is created
\* and one page fetch per offset is scheduled; either step may raise
ProbeReturnsTotal ==
    /\ pc = "probing"
    /\ InitialData.total # 0
    /\ IF RangeRaises(kwargs) \/ LimiterRaises(variant, budget)
       THEN /\ pc' = "raised"
            /\ error' = SetupError
            /\ UNCHANGED <<tasks, limiter, slots>>
       ELSE /\ LET offsets == Offsets(kwargs, InitialData.total)
               IN  /\ tasks' = [i \in 1..Len(offsets) |->
                                   [offset |-> offsets[i], state |-> "queued",
                                    kw |-> NoKwargs, page |-> NoPage]]
                   /\ pc' = IF Len(offsets) = 0 THEN "returned" ELSE "fanout"
            /\ limiter' = "created"
            /\ slots' = LimiterSize(budget)
            /\ error' = error
    /\ UNCHANGED <<clientVars, variant, budget, total, kwargs, fetchLog, order, collected,
                   result, history>>

\* variant of CanAcquire that admits one fetch too many
CanAcquireOffByOne(free) == free >= 0

\* may a queued page fetch take a worker / the semaphore
CanAcquire(free) == free > 0

\* a worker takes the next work item / the next coroutine enters the semaphore
\* and calls fetch_function(offset=offset, **batch_kwargs)
StartFetch ==
    /\ limiter = "created"
    /\ Queued # {}
    /\ CanAcquire(slots)
    /\ LET i == CHOOSE j \in Queued : \A k \in Queued : j <= k
           kw == PageKwargs(kwargs, tasks[i].offset)
       IN  /\ tasks' = [tasks EXCEPT ![i].state = "running", ![i].kw = kw]
           /\ fetchLog' = Append(fetchLog, [phase |-> "page", kw |-> kw])
    /\ slots' = slots - 1
    /\ UNCHANGED <<clientVars, variant, budget, total, kwargs, pc, limiter, order, collected,
                   result, error, history>>

\* the task list after page fetch i returned its page / raised
TaskDone(i) ==
    [tasks EXCEPT ![i].state = "done", ![i].page = FetchFunction(total, tasks[i].kw)]
TaskFailed(i) == [tasks EXCEPT ![i].state = "failed"]

\* variant of Release in which a finished page fetch keeps its slot
ReleaseKeepsSlot(free) == free

\* the slots after a page fetch left the worker / the semaphore
Release(free) == free + 1

\* sync: a worker's fetch returns; the future holds the page
SyncFetchSucceeds(i) ==
    /\ variant = "sync"
    /\ i \in Running
    /\ tasks' = TaskDone(i)
    /\ order' = Append(order, i)
    /\ slots' = Release(slots)
    /\ UNCHANGED <<clientVars, variant, budget, total, kwargs, pc, fetchLog, limiter,
                   collected, result, error, history>>

\* sync: a worker's fetch raises; the future holds the exception
SyncFetchFails(i) ==
    /\ variant = "sync"
    /\ i \in Running
    /\ tasks' = TaskFailed(i)
    /\ order' = Append(order, i)
    /\ slots' = Release(slots)
    /\ UNCHANGED <<clientVars, variant, budget, total, kwargs, pc, fetchLog, limiter,
                   collected, result, error, history>>

\* sync: the next task.result() returns a page; after the last one the list is
\* returned through the executor's __exit__ (shutdown(wait=True))
SyncCollectResult ==
    /\ variant = "sync"
    /\ pc = "fanout"
    /\ collected < NumTasks
    /\ tasks[collected + 1].state = "done"
    /\ collected' = collected + 1
    /\ IF collected + 1 = NumTasks /\ AllSettled
       THEN pc' = "returned" /\ result' = ResultPages
       ELSE pc' = pc /\ result' = result
    /\ UNCHANGED <<clientVars, variant, budget, total, kwargs, fetchLog, limiter, slots,
                   tasks, order, error, history>>

\* sync: the next task.result() raises; the exception enters the executor's
\* __exit__, which waits for the other futures
SyncCollectFailure ==
    /\ variant = "sync"
    /\ pc = "fanout"
    /\ collected < NumTasks
    /\ tasks[collected + 1].state = "failed"
    /\ pc' = "shutdown"
    /\ error' = PageError(tasks[collected + 1].offset)
    /\ UNCHANGED <<clientVars, variant, budget, total, kwargs, fetchLog, limiter, slots,
                   tasks, order, collected, result, history>>

\* variant of ShutdownDone in which the executor's __exit__ does not wait
ShutdownDoneAtOnce == TRUE

\* may the executor's __exit__ return: shutdown(wait=True) joins every worker
ShutdownDone == AllSettled

\* sync: __exit__ returns and the pending exception reaches the caller
SyncShutdown ==
    /\ variant = "sync"
    /\ pc = "shutdown"
    /\ ShutdownDone
    /\ pc' = "raised"
    /\ UNCHANGED <<clientVars, variant, budget, total, kwargs, fetchLog, limiter, slots,
                   tasks, order, collected, result, error, history>>

\* variant of GatherResolves that resolves with the first child that is done
GatherResolvesOnFirst(settled) == settled # {}

\* does gather deliver its result now: it does once every child is done
GatherResolves(settled) == settled = 1..NumTasks

\* async: a page coroutine returns; gather resolves once every one has
AsyncFetchSucceeds(i) ==
    /\ variant = "async"
    /\ i \in Running
    /\ tasks' = TaskDone(i)
    /\ order' = Append(order, i)
    /\ slots' = Release(slots)
    /\ UNCHANGED <<clientVars, variant, budget, total, kwargs, fetchLog, limiter, collected,
                   error, history>>
    /\ IF pc = "fanout" /\ GatherResolves(Settled \cup {i})
       THEN pc' = "returned" /\ result' = ResultPages'
       ELSE pc' = pc /\ result' = result

\* variant of GatherRaises in which gather keeps a child's exception to itself
GatherSwallowsFailure(position) == FALSE

\* does gather deliver a child's exception now: it does so for the first one
GatherRaises(position) == position = "fanout"

\* variant of GatheredError that reports the first scheduled fetch
GatheredErrorFirstScheduled(i) == PageError(tasks[1].offset)

\* the exception gather sets on the awaited future: that of the child that
\* raised now
GatheredError(i) == PageError(tasks[i].offset)

\* async: a page coroutine raises; leaving `async with semaphore` wakes the
\* first waiter, which starts its fetch before gather (return_exceptions=False)
\* hands the first exception to the awaiting caller; the siblings keep running
AsyncFetchFails(i) ==
    /\ variant = "async"
    /\ i \in Running
    /\ IF Queued = {}
       THEN /\ tasks' = TaskFailed(i)
            /\ slots' = Release(slots)
            /\ fetchLog' = fetchLog
       ELSE LET j == CHOOSE q \in Queued : \A k \in Queued : q <= k
                kw == PageKwargs(kwargs, tasks[j].offset)
            IN  /\ tasks' = [TaskFailed(i) EXCEPT ![j].state = "running", ![j].kw = kw]
                /\ slots' = Release(slots) - 1
                /\ fetchLog' = Append(fetchLog, [phase |-> "page", kw |-> kw])
    /\ order' = Append(order, i)
    /\ IF GatherRaises(pc)
       THEN pc' = "raised" /\ error' = GatheredError(i)
       ELSE pc' = pc /\ error' = error
    /\ UNCHANGED <<clientVars, variant, budget, total, kwargs, limiter, collected,
                   result, history>>

\* what a finished call leaves behind for comparison with the next one
Summary ==
    [kwargs |-> kwargs, fetchLog |-> fetchLog, outcome |-> pc,
     result |-> result, error |-> error,
     scheduled |-> limiter = "created",
     offsets |-> [i \in 1..Len(tasks) |-> tasks[i].kw["offset"]]]

\* the caller invokes the helper a second time on the same client once the
\* first call is over, with the same arguments up to the offset it passes
CallAgain ==
    /\ pc \in {"returned", "raised"}
    /\ Running = {} /\ Queued = {}
    /\ history = <<>>
    /\ history' = Append(history, Summary)
    /\ kwargs' \in {kw \in CallerKwargs :
                      clean_kwargs(kw, {"offset"}) = clean_kwargs(kwargs, {"offset"})}
    /\ pc' = "call"
    /\ fetchLog' = <<>>
    /\ limiter' = "none"
    /\ slots' = 0
    /\ tasks' = <<>>
    /\ order' = <<>>
    /\ collected' = 0
    /\ result' = <<>>
    /\ error' = NoError
    /\ UNCHANGED <<clientVars, variant, budget, total>>

NextCall ==
    \/ Probe
    \/ ProbeFails
    \/ ProbeReturnsEmpty
    \/ ProbeReturnsTotal
    \/ StartFetch
    \/ \E i \in Running : SyncFetchSucceeds(i)
    \/ \E i \in Running : SyncFetchFails(i)
    \/ SyncCollectResult
    \/ SyncCollectFailure
    \/ SyncShutdown
    \/ \E i \in Running : AsyncFetchSucceeds(i)
    \/ \E i \in Running : AsyncFetchFails(i)

Next == NextCall

\* one call of _fetch_all_with_pagination on a fresh client
Spec == Init /\ [][Next]_vars

NextRepeat ==
    \/ NextCall
    \/ CallAgain

\* two consecutive calls on one client
SpecRepeat == InitRepeat /\ [][NextRepeat]_vars

\* one call with a page size and no other argument
InitFair ==
    /\ Init
    /\ DOMAIN kwargs = {"limit"}

\* a page fetch the fetch function is working on returns or raises
FinishFetch ==
    \E i \in Running :
        \/ SyncFetchSucceeds(i)
        \/ SyncFetchFails(i)
        \/ AsyncFetchSucceeds(i)
        \/ AsyncFetchFails(i)

\* an idle worker / a released semaphore is taken by the next queued fetch and
\* every fetch call terminates; gather's exception does not stop the event loop
SpecFair ==
    /\ InitFair
    /\ [][Next]_vars
    /\ WF_vars(StartFetch)
    /\ WF_vars(FinishFetch)

(* --------------------- the client around the helper -------------------- *)
\* no call of the helper is in progress and none of its fetches is left over
Quiescent == pc \in {"call", "returned", "raised"} /\ Running = {} /\ Queued = {}

Tokens == {"t1", "t2"}

\* __enter__ / __aenter__: self._session = httpx.Client(...) replaces whatever
\* session the client held
Enter ==
    /\ Quiescent
    /\ Len(sessions) < MaxSessions
    /\ sessions' = Append(sessions, "open")
    /\ current' = Len(sessions) + 1
    /\ depth' = depth + 1
    /\ lastExit' = "none"
    /\ UNCHANGED <<call, lastLogin, requestedBudget, token, headers, other, variant, budget, total,
                   kwargs, pc, fetchLog, limiter, slots, tasks, order, collected,
                   result, error, history>>

\* variant of CloseSession that closes the session the constructor created
CloseFirstSession(all, i) == [all EXCEPT ![1] = "closed"]

\* self._session.close() / await self._session.aclose()
CloseSession(all, i) == [all EXCEPT ![i] = "closed"]

\* __exit__ / __aexit__ at the end of a block, left normally or by an exception
Exit(how) ==
    /\ Quiescent
    /\ depth > 0
    /\ sessions' = CloseSession(sessions, current)
    /\ depth' = depth - 1
    /\ lastExit' = how
    /\ UNCHANGED <<call, lastLogin, requestedBudget, current, token, headers, other, variant, budget,
                   total, kwargs, pc, fetchLog, limiter, slots, tasks, order,
                   collected, result, error, history>>

\* can self._session.request(...) be sent: there is a session and it is open
CanRequest == current > 0 /\ sessions[current] = "open"

\* login: the response is successful and carries data.token = t
LoginSucceeds(t) ==
    /\ Quiescent
    /\ CanRequest
    /\ token' = t
    /\ headers' = [token |-> t]
    /\ lastLogin' = t
    /\ UNCHANGED <<call, requestedBudget, sessions, current, depth, lastExit, other,
                   variant, budget, total, kwargs, pc, fetchLog, limiter, slots,
                   tasks, order, collected, result, error, history>>

\* login: the request cannot be sent, the response is an error status or it
\* holds no data.token; login raises before it assigns anything
LoginFails ==
    /\ Quiescent
    /\ UNCHANGED vars

(* ------------------------ requests and login -------------------------- *)
\* response bodies: no text, text that is not JSON, or a JSON object
EmptyBody == [text |-> "empty", raw |-> "", json |-> NoKwargs]
TextBody == [text |-> "notjson", raw |-> "Bad Gateway", json |-> NoKwargs]
JsonBody(obj) == [text |-> "json", raw |-> "{..}", json |-> obj]

JsonObjects ==
    {NoKwargs, [data |-> NoKwargs], [message |-> "m1"],
     [errorCode |-> "E1", message |-> "m1"]}
        \cup {[data |-> [token |-> t]] : t \in Tokens}

Bodies == {EmptyBody, TextBody} \cup {JsonBody(obj) : obj \in JsonObjects}

\* response.is_success is true for the 2xx status codes only
ErrorStatuses == {401, 500}
Responses ==
    {[success |-> TRUE, status |-> 200, body |-> b] : b \in Bodies}
        \cup {[success |-> FALSE, status |-> c, body |-> b] :
                  c \in ErrorStatuses, b \in Bodies}

\* an exception with the parts of its message; unused parts are "-" and 0
ErrorOf(exc, status, code, message, text) ==
    [exc |-> exc, status |-> status, errorCode |-> code, message |-> message,
     text |-> text]
NoException == ErrorOf("none", 0, "-", "-", "-")
Returned(value) == [kind |-> "returned", value |-> value, error |-> NoException]
Raised(e) == [kind |-> "raised", value |-> NoKwargs, error |-> e]

\* variant of HandleApiError that builds the message but does not raise it
HandleApiErrorReturns(resp) == Returned(NoKwargs)

\* _handle_api_error: the message carries the status code and, when the body
\* decodes as JSON, its errorCode and message (with defaults), else the raw text
HandleApiError(resp) ==
    IF resp.body.text = "json"
    THEN Raised(ErrorOf("Exception", resp.status,
                        Get(resp.body.json, "errorCode", "Unknown"),
                        Get(resp.body.json, "message", "An unknown error occurred."),
                        "-"))
    ELSE Raised(ErrorOf("Exception", resp.status, "-", "-", resp.body.raw))

\* _make_request: the session sends the request; a successful response yields
\* response.json() if response.text else {}, any other goes to _handle_api_error
MakeRequest(resp) ==
    IF ~CanRequest
    THEN Raised(ErrorOf("SessionError", 0, "-", "-", "-"))
    ELSE IF resp.success
    THEN (CASE resp.body.text = "empty" -> Returned(NoKwargs)
            [] resp.body.text = "json" -> Returned(resp.body.json)
            [] OTHER -> Raised(ErrorOf("JSONDecodeError", 0, "-", "-", "-")))
    ELSE HandleApiError(resp)

\* if data and "token" in data.get("data", {})
TokenFound(data) == data # NoKwargs /\ "token" \in DOMAIN Get(data, "data", NoKwargs)

\* did login reach its two assignments
LoginOk(out) == out.kind = "returned" /\ TokenFound(out.value)

\* variant of TokenAfterLogin that forgets the stored token when login fails
TokenAfterLoginCleared(out) ==
    IF LoginOk(out) THEN out.value["data"]["token"] ELSE "None"

\* self._token after login: data["data"]["token"], or as before when it raised
TokenAfterLogin(out) ==
    IF LoginOk(out) THEN out.value["data"]["token"] ELSE token

\* variant of LoginHeaders that only fills in headers that are still empty
LoginHeadersOnce(t) == IF headers = NoKwargs THEN [token |-> t] ELSE headers

\* {"token": f"{self._token}"}
LoginHeaders(t) == [token |-> t]

\* variant of HeadersAfterLogin that empties the headers when login fails
HeadersAfterLoginCleared(out) ==
    IF LoginOk(out) THEN LoginHeaders(out.value["data"]["token"]) ELSE NoKwargs

\* self._headers after login
HeadersAfterLogin(out) ==
    IF LoginOk(out) THEN LoginHeaders(out.value["data"]["token"]) ELSE headers

\* what login hands to its caller: None, the error of _make_request, or KeyError
LoginOutcome(out) ==
    IF out.kind = "raised" THEN out
    ELSE IF TokenFound(out.value) THEN Returned(NoKwargs)
    ELSE Raised(ErrorOf("KeyError", 0, "-", "-", "-"))

\* the server's view: the response of a login that went out carries a token
CarriesToken(resp) ==
    /\ resp.success
    /\ resp.body.text = "json"
    /\ "data" \in DOMAIN resp.body.json
    /\ "token" \in DOMAIN resp.body.json["data"]

\* the record of a login or request: headers sent, response, outcome and the
\* token and headers the client held before
CallRecord(fn, resp, out) ==
    [fn |-> fn, sendable |-> CanRequest, sent |-> headers, resp |-> resp, out |-> out,
     tokenBefore |-> token, headersBefore |-> headers]

\* login(username, password) answered with resp
Login(resp) ==
    /\ Quiescent
    /\ token' = TokenAfterLogin(MakeRequest(resp))
    /\ headers' = HeadersAfterLogin(MakeRequest(resp))
    /\ lastLogin' = IF CanRequest /\ CarriesToken(resp)
                    THEN resp.body.json["data"]["token"] ELSE lastLogin
    /\ call' = CallRecord("login", resp, LoginOutcome(MakeRequest(resp)))
    /\ UNCHANGED <<requestedBudget, sessions, current, depth, lastExit, other,
                   variant, budget, total, kwargs, pc, fetchLog, limiter, slots,
                   tasks, order, collected, result, error, history>>

\* any other _make_request(method, endpoint) answered with resp
Request(resp) ==
    /\ Quiescent
    /\ call' = CallRecord("request", resp, MakeRequest(resp))
    /\ UNCHANGED <<lastLogin, requestedBudget, sessions, current, depth, lastExit,
                   token, headers, other, variant, budget, total, kwargs, pc,
                   fetchLog, limiter, slots, tasks, order, collected, result,
                   error, history>>

(* --------------------------- _clean_kwargs ----------------------------- *)
\* remove_keys as the caller passes it: one string or a list of strings
KeyString(k) == [isStr |-> TRUE, str |-> k, list |-> <<>>]
KeyListOf(keys) == [isStr |-> FALSE, str |-> "", list |-> keys]

\* variant of KeyList that uses a string as the container itself, so that
\* `k not in remove_keys` tests for a substring
KeyListUnwrapped(rk) ==
    IF rk.isStr
    THEN (IF rk.str = "total_safe_limit"
          THEN <<"total_safe_limit", "limit">> ELSE <<rk.str>>)
    ELSE rk.list

\* remove_keys = [remove_keys] if isinstance(remove_keys, str) else remove_keys
KeyList(rk) == IF rk.isStr THEN <<rk.str>> ELSE rk.list

\* _clean_kwargs(kwargs, remove_keys)
CleanKwargs(kw, rk) ==
    clean_kwargs(kw, {KeyList(rk)[i] : i \in 1..Len(KeyList(rk))})

CleanInputs ==
    {MakeKwargs(lim, off, tsl, st) :
        lim \in {<<>>, <<MaxLimit>>}, off \in OffsetChoices,
        tsl \in {<<>>, <<MaxSafeLimit>>}, st \in StatusChoices}

RemoveChoices ==
    {KeyString(k) : k \in {"limit", "total_safe_limit", "offset", "page"}}
        \cup {KeyListOf(keys) : keys \in {<<>>, <<"total_safe_limit", "limit">>,
                                          <<"total_safe_limit", "offset">>,
                                          <<"limit", "limit">>}}

\* one call of the static method; kw is the caller's dict, read again afterwards
CleanKwargsCall(kw, rk) ==
    /\ call' = [fn |-> "_clean_kwargs", arg |-> kw, keys |-> rk,
                out |-> CleanKwargs(kw, rk), argAfter |-> kw,
                again |-> CleanKwargs(CleanKwargs(kw, rk), rk)]
    /\ UNCHANGED <<lastLogin, requestedBudget, sessions, current, depth, lastExit,
                   token, headers, other, variant, budget, total, kwargs, pc,
                   fetchLog, limiter, slots, tasks, order, collected, result,
                   error, history>>

\* a second list_all_* invocation on the same client, running concurrently
\* with the modelled one: it builds its own pool / semaphore of the same size
OtherSchedule ==
    /\ other.limiter = "none"
    /\ \E n \in 1..MaxRepeatPages :
           other' = [limiter |-> "created", slots |-> LimiterSize(budget),
                     queued |-> n, running |-> 0]
    /\ UNCHANGED <<call, lastLogin, requestedBudget, sessions, current, depth, lastExit, token,
                   headers, variant, budget, total, kwargs, pc, fetchLog, limiter,
                   slots, tasks, order, collected, result, error, history>>

\* a page fetch of the other invocation takes a slot of that invocation's limiter
OtherStart ==
    /\ other.limiter = "created"
    /\ other.queued > 0
    /\ CanAcquire(other.slots)
    /\ other' = [other EXCEPT !.slots = @ - 1, !.queued = @ - 1, !.running = @ + 1]
    /\ UNCHANGED <<call, lastLogin, requestedBudget, sessions, current, depth, lastExit, token,
                   headers, variant, budget, total, kwargs, pc, fetchLog, limiter,
                   slots, tasks, order, collected, result, error, history>>

\* a page fetch of the other invocation returns or raises
OtherFinish ==
    /\ other.running > 0
    /\ other' = [other EXCEPT !.slots = Release(@), !.running = @ - 1]
    /\ UNCHANGED <<call, lastLogin, requestedBudget, sessions, current, depth, lastExit, token,
                   headers, variant, budget, total, kwargs, pc, fetchLog, limiter,
                   slots, tasks, order, collected, result, error, history>>

\* the same call is made on a client of the other class once the first is over
CallOtherVariant ==
    /\ pc \in {"returned", "raised"}
    /\ Running = {} /\ Queued = {}
    /\ history = <<>>
    /\ history' = Append(history, Summary)
    /\ variant' = IF variant = "sync" THEN "async" ELSE "sync"
    /\ sessions' = IF variant' = "sync" THEN <<"open">> ELSE <<>>
    /\ current' = IF variant' = "sync" THEN 1 ELSE 0
    /\ pc' = "call"
    /\ fetchLog' = <<>>
    /\ limiter' = "none"
    /\ slots' = 0
    /\ tasks' = <<>>
    /\ order' = <<>>
    /\ collected' = 0
    /\ result' = <<>>
    /\ error' = NoError
    /\ UNCHANGED <<call, lastLogin, requestedBudget, depth, lastExit, token, headers, other, budget,
                   total, kwargs>>

\* the budgets a client is constructed with: below, at and above the ceiling
RequestedBudgets == {MaxBudget, FETCHES_CEILING, FETCHES_CEILING + 1}

\* a two-page call with a page size on a client of any budget
InitClient ==
    /\ Constructed(RequestedBudgets)
    /\ total \in {0, 2 * MaxLimit}
    /\ kwargs = MakeKwargs(<<MaxLimit>>, <<>>, <<>>, <<>>)
    /\ history = <<>>
    /\ FreshCall

NextClient ==
    \/ NextCall
    \/ CallAgain
    \/ Enter
    \/ \E how \in {"normal", "exception"} : Exit(how)
    \/ \E t \in Tokens : LoginSucceeds(t)
    \/ LoginFails

\* a client that is logged in, entered, left and used for up to two calls
SpecClient == InitClient /\ [][NextClient]_vars

NextConcurrent ==
    \/ NextCall
    \/ OtherSchedule
    \/ OtherStart
    \/ OtherFinish

\* two invocations of the helper on one client at the same time
\* budgets, page sizes and caps around zero
EdgeBudgets == (-1)..MaxEdge
EdgeLimits == {<<>>} \cup {<<v>> : v \in (-1)..MaxEdge}
EdgeSafeLimits == {<<>>} \cup {<<v>> : v \in (-MaxEdge)..MaxEdge}

\* one call whose budget, limit and total_safe_limit may be zero or negative
InitEdge ==
    /\ Constructed(EdgeBudgets)
    /\ total \in 0..(MaxEdge + 1)
    /\ kwargs \in {MakeKwargs(lim, <<>>, tsl, <<>>) :
                      lim \in EdgeLimits, tsl \in EdgeSafeLimits}
    /\ history = <<>>
    /\ FreshCall

SpecEdge == InitEdge /\ [][Next]_vars

\* a client that has not called the helper
InitRequests ==
    /\ Constructed({MaxBudget})
    /\ total = 0
    /\ kwargs = NoKwargs
    /\ history = <<>>
    /\ FreshCall

NextRequests ==
    \/ Enter
    \/ \E how \in {"normal", "exception"} : Exit(how)
    \/ \E resp \in Responses : Login(resp)
    \/ \E resp \in Responses : Request(resp)
    \/ \E kw \in CleanInputs, rk \in RemoveChoices : CleanKwargsCall(kw, rk)

\* the client's sessions, logins, requests and _clean_kwargs calls
SpecRequests == InitRequests /\ [][NextRequests]_vars

SpecConcurrent == InitFair /\ [][NextConcurrent]_vars

\* one call on the thread-pool client, then the same call on the asyncio client
InitVariants ==
    /\ InitFair
    /\ variant = "sync"

NextVariants ==
    \/ NextCall
    \/ CallOtherVariant

SpecVariants == InitVariants /\ [][NextVariants]_vars

(* ====================== properties of the helper ======================= *)
\* the page fetches of the running call, in start order
PageCalls == SelectSeq(fetchLog, LAMBDA c : c.phase = "page")
ProbeCalls == SelectSeq(fetchLog, LAMBDA c : c.phase = "probe")

\* the offsets a sequence of fetch calls was made with
CallOffsets(calls) == [i \in 1..Len(calls) |-> calls[i].kw["offset"]]
FetchedOffsets == {PageCalls[i].kw["offset"] : i \in 1..Len(PageCalls)}
TimesFetched(o) == Cardinality({i \in 1..Len(PageCalls) : PageCalls[i].kw["offset"] = o})

\* the page size and the caps the caller asked for
CallerLimit == Get(kwargs, "limit", DEFAULT_LIMIT)
HasSafeLimit == "total_safe_limit" \in DOMAIN kwargs
\* {0, L, 2L, ...} below min(total_safe_limit if given else total, total)
TilingBound ==
    IF HasSafeLimit /\ kwargs["total_safe_limit"] < total
    THEN kwargs["total_safe_limit"] ELSE total
TilingOffsets == {o \in 0..(TilingBound - 1) : o % CallerLimit = 0}

\* no page fetch of the running call is still waiting for the limiter
FanOutStarted == limiter = "created" /\ Queued = {}

\* the records of a sequence of pages, concatenated in output order
RECURSIVE Flatten(_)
Flatten(pages) ==
    IF pages = <<>> THEN <<>>
    ELSE Flatten(SubSeq(pages, 1, Len(pages) - 1)) \o pages[Len(pages)].data

(* C1: with a budget N >= 1, at every instant of a call the number of page *)
(* fetches that have started and not yet finished is at most N, in the     *)
(* thread-pool variant and in the semaphore variant.                       *)
C1_InFlightAtMostBudget ==
    budget >= 1 => Cardinality(Running) <= budget

\* the semaphore variant runs N fetches while another one waits for a slot
C1_Witness ==
    /\ variant = "async"
    /\ budget = 2
    /\ Cardinality(Running) = budget
    /\ Queued # {}

(* C2: for a probe total > 0, a page size L >= 1 and a total_safe_limit    *)
(* that is absent or positive, the offsets fetched in the fan-out are      *)
(* exactly the multiples of L below min(total_safe_limit or total, total): *)
(* none other is fetched, none twice, each one once all fetches started;   *)
(* all are below the server's total; without total_safe_limit the pages    *)
(* cover [0, total).                                                       *)
C2_OffsetsTileEffectiveTotal ==
    (total > 0 /\ CallerLimit >= 1 /\ (HasSafeLimit => kwargs["total_safe_limit"] >= 1)) =>
        /\ FetchedOffsets \subseteq TilingOffsets
        /\ \A o \in FetchedOffsets : TimesFetched(o) = 1 /\ o < total
        /\ FanOutStarted => FetchedOffsets = TilingOffsets
        /\ (FanOutStarted /\ ~HasSafeLimit) =>
               \A r \in 0..(total - 1) :
                   \E o \in FetchedOffsets : o <= r /\ r < o + CallerLimit

\* total = 12, limit = 5, total_safe_limit = 7: offsets 0 and 5 were fetched
C2_Witness ==
    /\ total = 12
    /\ CallerLimit = 5
    /\ HasSafeLimit /\ kwargs["total_safe_limit"] = 7
    /\ pc = "returned"
    /\ FetchedOffsets = {0, 5}

(* C3: when the probe reports total = 0 the call returns the empty         *)
(* sequence after exactly one fetch, the probe, and no page fetch is ever  *)
(* scheduled or started.                                                   *)
C3_EmptyTotalOnlyProbes ==
    total = 0 =>
        /\ Len(PageCalls) = 0
        /\ tasks = <<>>
        /\ pc = "returned" =>
               /\ result = <<>>
               /\ Len(fetchLog) = 1
               /\ fetchLog[1].phase = "probe"

C3_Witness == total = 0 /\ pc = "returned" /\ Len(fetchLog) = 1

(* C4: when every fetch succeeds the returned sequence holds one element   *)
(* per scheduled offset and its i-th element (from 0) is the very page the *)
(* fetch at offset i * limit returned, whatever the completion order.      *)
C4_PagesInScheduleOrder ==
    (pc = "returned" /\ total > 0) =>
        /\ Len(result) = NumTasks
        /\ \A i \in 1..Len(result) :
               /\ result[i] = tasks[i].page
               /\ result[i].offset = (i - 1) * CallerLimit
               /\ result[i].total = total
               /\ result[i].data = ServerData(total, (i - 1) * CallerLimit, CallerLimit)

\* three pages of which the middle one completed last
C4_Witness ==
    /\ pc = "returned"
    /\ order = <<1, 3, 2>>
    /\ Len(result) = 3

(* C5: without total_safe_limit, for total >= 1 and limit >= 1, the data   *)
(* of the returned pages concatenated in output order holds every record   *)
(* 0 .. total-1 exactly once.                                              *)
C5_EveryRecordExactlyOnce ==
    (pc = "returned" /\ ~HasSafeLimit /\ total >= 1 /\ CallerLimit >= 1) =>
        LET flat == Flatten(result)
        IN  /\ Len(flat) = total
            /\ \A r \in 0..(total - 1) :
                   Cardinality({i \in 1..Len(flat) : flat[i] = r}) = 1

\* total = 12, limit = 5: three pages at offsets 0, 5, 10
C5_Witness ==
    /\ pc = "returned"
    /\ ~HasSafeLimit
    /\ total = 12
    /\ "limit" \in DOMAIN kwargs /\ kwargs["limit"] = 5
    /\ Len(result) = 3
    /\ CallOffsets(PageCalls) = <<0, 5, 10>>

(* C6: the failure of a page fetch reaches the caller only after every     *)
(* scheduled page fetch of the call has settled, in both variants.         *)
C6_FailureAfterAllSettled ==
    (pc = "raised" /\ error.kind = "page") => AllSettled

\* what holds of the thread-pool variant alone
C6_SyncFailureAfterAllSettled ==
    (variant = "sync" /\ pc = "raised" /\ error.kind = "page") => AllSettled

(* C7: when the probe fails the call fails with that error at once: no     *)
(* page fetch is started, no pool or semaphore is created and nothing is   *)
(* returned.                                                               *)
C7_ProbeFailureAborts ==
    error.kind = "probe" =>
        /\ pc = "raised"
        /\ limiter = "none"
        /\ tasks = <<>>
        /\ Len(PageCalls) = 0
        /\ Len(fetchLog) = 1
        /\ result = <<>>

C7_Witness == error.kind = "probe" /\ pc = "raised" /\ total > 0

(* C8 (as claimed): the probe is called once with limit = 1, without any   *)
(* offset argument even when the caller passed one, without                *)
(* total_safe_limit and with the other filters unchanged.                  *)
C8_ProbeDropsOffset ==
    /\ Len(ProbeCalls) <= 1
    /\ \A i \in 1..Len(ProbeCalls) :
           LET kw == ProbeCalls[i].kw
           IN  /\ kw["limit"] = 1
               /\ "offset" \notin DOMAIN kw
               /\ "total_safe_limit" \notin DOMAIN kw
               /\ \A k \in (DOMAIN kwargs) \ {"limit", "offset", "total_safe_limit"} :
                      k \in DOMAIN kw /\ kw[k] = kwargs[k]

(* C8 (amended): the probe is called once with limit = 1 whatever limit    *)
(* the caller asked for, without total_safe_limit, and with every other    *)
(* caller argument passed through unchanged, the caller's offset included. *)
C8_ProbeKeepsOffset ==
    /\ Len(ProbeCalls) <= 1
    /\ pc # "call" => Len(ProbeCalls) = 1 /\ fetchLog[1].phase = "probe"
    /\ \A i \in 1..Len(ProbeCalls) :
           LET kw == ProbeCalls[i].kw
           IN  /\ DOMAIN kw = ((DOMAIN kwargs) \ {"total_safe_limit"}) \cup {"limit"}
               /\ kw["limit"] = 1
               /\ \A k \in (DOMAIN kw) \ {"limit"} : kw[k] = kwargs[k]

\* the caller passed limit, offset, total_safe_limit and a filter
C8_Witness ==
    /\ DOMAIN kwargs = {"limit", "offset", "total_safe_limit", "status"}
    /\ kwargs["limit"] = 5 /\ kwargs["offset"] = 5
    /\ Len(ProbeCalls) = 1
    /\ ProbeCalls[1].kw = [limit |-> 1, offset |-> 5, status |-> "NEW"]
    /\ pc = "returned"

C10_SafeLimitCapsRecords ==
    (pc = "returned" /\ HasSafeLimit /\ kwargs["total_safe_limit"] >= 1) =>
        Len(Flatten(result)) <= kwargs["total_safe_limit"]

(* C11: every page fetch is invoked with the page size the offsets were    *)
(* computed with (the caller's limit, or the default 10 of the fetch       *)
(* function when the caller gave none), with its scheduled offset, never   *)
(* with total_safe_limit and with the caller's other filters unchanged;    *)
(* consecutive offsets are one such page size apart.                       *)
C11_PageFetchArguments ==
    /\ \A i \in 1..Len(PageCalls) :
           LET kw == PageCalls[i].kw
           IN  /\ DOMAIN kw = ((DOMAIN kwargs) \ {"total_safe_limit"}) \cup {"offset"}
               /\ kw["offset"] = tasks[i].offset
               /\ Get(kw, "limit", DEFAULT_LIMIT) = CallerLimit
               /\ \A k \in (DOMAIN kw) \ {"offset"} : kw[k] = kwargs[k]
    /\ \A i \in 1..(Len(PageCalls) - 1) :
           PageCalls[i + 1].kw["offset"] - PageCalls[i].kw["offset"]
               = Get(PageCalls[i].kw, "limit", DEFAULT_LIMIT)
    /\ \A i \in 1..NumTasks :
           tasks[i].state = "done" =>
               Len(tasks[i].page.data) = Min(CallerLimit, total - tasks[i].offset)

\* the caller passed limit = 5, a cap and a filter; two pages were fetched
C11_Witness ==
    /\ DOMAIN kwargs = {"limit", "total_safe_limit", "status"}
    /\ kwargs["limit"] = 5
    /\ pc = "returned"
    /\ Len(PageCalls) = 2
    /\ PageCalls[2].kw = [limit |-> 5, offset |-> 5, status |-> "NEW"]

(* C12: no page fetch starts before the probe has completed and its total  *)
(* has been read; the probe never overlaps with a page fetch of the call.  *)
C12_ProbeBeforeFanOut ==
    /\ pc \in {"call", "probing"} =>
           /\ Running = {}
           /\ Len(PageCalls) = 0
    /\ Len(PageCalls) > 0 =>
           /\ fetchLog[1].phase = "probe"
           /\ total > 0
    /\ \A i \in 2..Len(fetchLog) : fetchLog[i].phase = "page"

\* the probe is in flight and nothing else is
C12_Witness == pc = "probing" /\ total > 0 /\ Len(fetchLog) = 1

\* a page fetch is running once the probe has returned
C12_WitnessFanOut == pc = "fanout" /\ Running # {} /\ fetchLog[1].phase = "probe"

(* C13: when every page fetch succeeds the call returns only after all of  *)
(* them have completed: at the return none is queued or running and the    *)
(* result holds the page of every scheduled offset.                        *)
C13_ReturnAfterFullJoin ==
    pc = "returned" =>
        /\ Queued = {}
        /\ Running = {}
        /\ \A i \in 1..NumTasks : tasks[i].state = "done"
        /\ Len(result) = NumTasks
        /\ \A i \in 1..NumTasks :
               /\ result[i].offset = tasks[i].offset
               /\ result[i].total = total

\* the semaphore variant returned three pages
C13_Witness ==
    /\ variant = "async"
    /\ pc = "returned"
    /\ NumTasks = 3
    /\ Len(result) = 3

(* C15: nothing is retried: the probe is issued at most once and each      *)
(* tiled offset is fetched at most once, also when a fetch fails; once the *)
(* probe or a page fetch has failed the call never returns a result, and a *)
(* call that has come to rest has returned or has raised.                  *)
C15_NoRetryNoPartialResult ==
    /\ Len(ProbeCalls) <= 1
    /\ \A o \in 0..MaxTotal : TimesFetched(o) <= 1
    /\ Len(PageCalls) <= NumTasks
    /\ (\E i \in 1..NumTasks : tasks[i].state = "failed") =>
           /\ pc \in {"fanout", "shutdown", "raised"}
           /\ result = <<>>
           /\ variant = "async" => pc = "raised"
    /\ error # NoError => pc \in {"shutdown", "raised"} /\ result = <<>>
    /\ pc = "returned" => error = NoError
    /\ pc = "raised" => error # NoError
    /\ ~(ENABLED Next) =>
           /\ pc \in {"returned", "raised"}
           /\ (\E i \in 1..NumTasks : tasks[i].state = "failed") => pc = "raised"

\* the second of three page fetches failed; the call raised after the other
\* two were fetched once each and none was fetched again
C15_Witness ==
    /\ NumTasks = 3
    /\ tasks[2].state = "failed"
    /\ tasks[1].state = "done"
    /\ tasks[3].state = "done"
    /\ pc = "raised"
    /\ Len(PageCalls) = 3

C16_VariantsIssueSameCalls ==
    (/\ history # <<>>
     /\ pc \in {"returned", "raised"}
     /\ history[1].outcome = pc
     /\ history[1].error = error)
    => /\ {history[1].fetchLog[i] : i \in 1..Len(history[1].fetchLog)}
              = {fetchLog[i] : i \in 1..Len(fetchLog)}
       /\ history[1].result = result

(* C17: the stored budget is never above 20: a requested budget above 20   *)
(* is stored as 20, any other is stored as requested, and no operation on  *)
(* the client (login, a call of the helper, entering or leaving a block)   *)
(* changes it afterwards.                                                  *)
C17_BudgetClampedAndFixed ==
    /\ [](/\ budget <= 20
          /\ budget = IF requestedBudget > 20 THEN 20 ELSE requestedBudget)
    /\ [][budget' = budget /\ requestedBudget' = requestedBudget]_vars

\* a client asked for 21 holds 20 after a login, a block and two calls
C17_Witness ==
    /\ requestedBudget = 21
    /\ budget = 20
    /\ token = "t2"
    /\ lastExit = "normal"
    /\ history # <<>>
    /\ pc = "returned"

(* C18: for one client the page fetches in flight, summed over all of its  *)
(* concurrently running invocations of the helper, never exceed the        *)
(* client's concurrent_fetches_limit.                                      *)
C18_ClientWideInFlightBound == Cardinality(Running) + other.running <= budget

(* C19: the helper keeps no state across calls: a second call with the     *)
(* same arguments issues the same fetch calls and returns the same ordered *)
(* pages as the first, and no step of a call changes the client's token,   *)
(* headers, session or budget.                                             *)
C19_NoStateAcrossCalls ==
    /\ []((/\ history # <<>>
           /\ history[1].kwargs = kwargs
           /\ history[1].outcome = "returned"
           /\ pc = "returned")
          => /\ history[1].fetchLog = fetchLog
             /\ history[1].result = result)
    /\ [][(NextCall \/ CallAgain)
            => UNCHANGED <<token, headers, sessions, current, budget>>]_vars

\* a logged-in client inside a block made the same two-page call twice
C19_Witness ==
    /\ history # <<>>
    /\ history[1].kwargs = kwargs
    /\ history[1].outcome = "returned"
    /\ pc = "returned"
    /\ Len(result) = 2
    /\ token = "t1"
    /\ depth = 1
    /\ CanRequest

(* C20 as stated: inside a context-manager block of the client its session *)
(* is open.                                                                *)
C20_OpenInsideBlock == depth > 0 => CanRequest

(* C20, amended: after entering a block the client's session is open and   *)
(* stays open until a block of the same client is left (the block itself   *)
(* or one nested in it); once a block has been left, normally or through   *)
(* an exception, the client's current session is closed; sync and async.   *)
C20_OpenUntilABlockIsLeft ==
    /\ (depth > 0 /\ lastExit = "none") => CanRequest
    /\ lastExit # "none" => (current > 0 /\ sessions[current] = "closed")

\* the asyncio client left its block through an exception
C20_Witness ==
    /\ variant = "async"
    /\ lastExit = "exception"
    /\ depth = 0
    /\ sessions = <<"closed">>
    /\ current = 1

(* C21: after a login whose response is successful and carries data.token  *)
(* = T the stored token is T and the headers are exactly {token: T}, also  *)
(* when an earlier login stored another token; every request sent after a  *)
(* login that stored T, up to the next such login, carries {token: T}.     *)
C21_LoginStoresToken ==
    /\ (call.fn = "login" /\ call.sendable /\ CarriesToken(call.resp)) =>
           /\ call.out.kind = "returned"
           /\ token = call.resp.body.json["data"]["token"]
           /\ headers = [token |-> call.resp.body.json["data"]["token"]]
    /\ (call.fn = "request" /\ call.sendable /\ lastLogin # "None") =>
           call.sent = [token |-> lastLogin]

\* a client holding t1 logged in again and now holds t2
C21_Witness ==
    /\ call.fn = "login"
    /\ call.tokenBefore = "t1"
    /\ call.sent = [token |-> "t1"]
    /\ token = "t2"
    /\ headers = [token |-> "t2"]

C23_WitnessJson ==
    /\ call.fn = "request"
    /\ call.sendable
    /\ call.resp.status = 401
    /\ call.out.error.errorCode = "E1"
    /\ call.out.error.message = "m1"

(* C29: after any sequence of logins and requests either no login response *)
(* has carried a token, the token is unset and the headers are empty, or   *)
(* the headers are exactly {token: t} with t the stored token, which is    *)
(* the token of the most recent successful login.                          *)
C29_TokenAndHeadersConsistent ==
    \/ /\ lastLogin = "None"
       /\ token = "None"
       /\ headers = NoKwargs
    \/ /\ lastLogin # "None"
       /\ token = lastLogin
       /\ headers = [token |-> token]

\* a client holding t2 failed to log in again with an API error
C29_Witness ==
    /\ lastLogin = "t2"
    /\ call.fn = "login"
    /\ call.sendable
    /\ call.out.error.exc = "Exception"
    /\ call.tokenBefore = "t2"
    /\ token = "t2"

(* C24: in the thread-pool variant, when page fetches fail, the caller     *)
(* gets control back only after every scheduled offset was fetched exactly *)
(* once and has finished, and the error raised is that of the failed page  *)
(* with the lowest offset, whichever page failed first in time.            *)
C24_SyncRaisesLowestFailedOffset ==
    (variant = "sync" /\ pc = "raised" /\ error.kind = "page") =>
        /\ AllSettled
        /\ \A i \in 1..NumTasks : TimesFetched(tasks[i].offset) = 1
        /\ Len(PageCalls) = NumTasks
        /\ \E i \in 1..NumTasks :
               /\ tasks[i].state = "failed"
               /\ error.offset = tasks[i].offset
               /\ \A j \in 1..NumTasks :
                      tasks[j].state = "failed" => tasks[i].offset <= tasks[j].offset

\* the second page failed first, the first failed later, the third was
\* fetched after both: the error of the first page was raised
C24_Witness ==
    /\ variant = "sync"
    /\ pc = "raised"
    /\ NumTasks = 3
    /\ order = <<2, 1, 3>>
    /\ tasks[1].state = "failed"
    /\ tasks[2].state = "failed"
    /\ tasks[3].state = "done"
    /\ error.offset = tasks[1].offset

(* C25: in the semaphore variant the error delivered is that of the page   *)
(* fetch that failed first in time, whatever its offset; the delivery      *)
(* cancels nothing: a sibling still in flight can finish, a queued one     *)
(* starts when a slot is free, and no more than the budget are in flight.  *)
C25_AsyncRaisesFirstFailure ==
    (variant = "async" /\ pc = "raised" /\ error.kind = "page") =>
        /\ \E n \in 1..Len(order) :
               /\ tasks[order[n]].state = "failed"
               /\ error.offset = tasks[order[n]].offset
               /\ \A k \in 1..(n - 1) : tasks[order[k]].state = "done"
        /\ Cardinality(Running) <= budget
        /\ Running # {} => ENABLED (\E i \in Running : AsyncFetchSucceeds(i))
        /\ (Queued # {} /\ slots > 0) => ENABLED StartFetch
        /\ (Queued # {} /\ Running = {}) => slots > 0

\* the second page failed first and was raised; the first page, still in
\* flight then, failed later; the third page is still queued
C25_Witness ==
    /\ variant = "async"
    /\ pc = "raised"
    /\ NumTasks = 3
    /\ Len(order) = 2
    /\ order[1] = 2
    /\ tasks[1].state = "failed"
    /\ tasks[2].state = "failed"
    /\ error.offset = tasks[2].offset
    /\ tasks[3].state \in {"queued", "running"}

(* C26: the helper terminates for every budget the constructor accepts,    *)
(* zero and negative ones included, when every fetch call terminates: a    *)
(* call in which no step is left to take has returned or has raised.       *)
C26_CallNeverStuck == ~(ENABLED Next) => pc \in {"returned", "raised"}

(* C27: with a probe total above zero no page fetch is issued with a page  *)
(* size of zero or less; a total_safe_limit <= 0 or a limit < 0 gives an   *)
(* empty result after the probe alone, and limit = 0 makes the call fail   *)
(* after the probe before any page fetch starts.                           *)
C27_NoFetchForNonPositiveSizes ==
    /\ \A i \in 1..Len(PageCalls) : Get(PageCalls[i].kw, "limit", DEFAULT_LIMIT) > 0
    /\ (/\ total > 0
        /\ pc \in {"fanout", "shutdown", "returned", "raised"}
        /\ error.kind # "probe"
        /\ \/ HasSafeLimit /\ kwargs["total_safe_limit"] <= 0
           \/ CallerLimit < 0
        /\ CallerLimit # 0
        /\ ~LimiterRaises(variant, budget))
       => (pc = "returned" /\ result = <<>> /\ Len(fetchLog) = 1)
    /\ (total > 0 /\ CallerLimit = 0 /\ pc \notin {"call", "probing"}) =>
           (pc = "raised" /\ Len(fetchLog) = 1 /\ tasks = <<>>)

(* C28: the client leaks no session: a session that is open is the one the *)
(* client currently holds (none was replaced while open), and once the     *)
(* client has left all of its blocks every session it created is closed.   *)
C28_NoSessionLeak ==
    \A i \in 1..Len(sessions) :
        /\ sessions[i] = "open" => i = current
        /\ (depth = 0 /\ lastExit # "none") => sessions[i] = "closed"

(* C30: _clean_kwargs returns a mapping with exactly the entries of its    *)
(* input whose key is not among the keys to remove, given as a list or as  *)
(* one string, values unchanged; the input is not modified and cleaning    *)
(* the result again with the same keys changes nothing.                    *)
C30_CleanKwargsRemovesExactlyKeys ==
    call.fn = "_clean_kwargs" =>
        LET removed == IF call.keys.isStr
                       THEN {call.keys.str}
                       ELSE {call.keys.list[i] : i \in 1..Len(call.keys.list)}
        IN  /\ DOMAIN call.out = (DOMAIN call.arg) \ removed
            /\ \A k \in DOMAIN call.out : call.out[k] = call.arg[k]
            /\ call.argAfter = call.arg
            /\ call.again = call.out

\* the single string "total_safe_limit" removed that key and kept "limit"
C30_Witness ==
    /\ call.fn = "_clean_kwargs"
    /\ call.keys.isStr
    /\ call.keys.str = "total_safe_limit"
    /\ DOMAIN call.arg = {"limit", "total_safe_limit", "status"}
    /\ DOMAIN call.out = {"limit", "status"}

====
